---- MODULE Spec2Model ----
(***************************************************************************)
(* Model of antivandal.py: the dataset extension functions (apply,         *)
(* cleanup, extend_with_diff, extend_with_basic_text_metrics,              *)
(* extend_with_ratio_metrics), the URL-preserving tokenizer helpers        *)
(* (keep_urls_preprocess, keep_urls_postprocess) and the Wikipedia API     *)
(* helpers (api_request, get_page_revisions).                              *)
(*                                                                         *)
(* A text is a sequence of one-character strings.  A MongoDB document or a *)
(* Python dict is a function from field names to values.  None is the      *)
(* empty dict where a dict is expected and NoneRatio where a number is.    *)
(***************************************************************************)
EXTENDS Integers, Sequences, FiniteSets, TLC

\* ------------------------------------------------------------------ bounds

\* most pieces (words, URLs) in a revision text drawn as input
MaxPieces == 2
\* how many values the random tail of a placeholder is drawn from
NumRandLetters == 2
\* most documents in the corpus collection
MaxRecords == 2
\* number of distinct rvcontinue values the server may hand out
NumTokens == 2
\* most documents initially in the httpcache collection
MaxCached == 1
\* the number of editors that fills a request of fill_editors_info (50 in
\* the code, scaled down)
BatchSize == 2
\* most records in the corpus fill_editors_info scans
MaxScan == 4

\* ------------------------------------------------------- character classes

Uppercase ==
    {"A","B","C","D","E","F","G","H","I","J","K","L","M",
     "N","O","P","Q","R","S","T","U","V","W","X","Y","Z"}

Lowercase ==
    {"a","b","c","d","e","f","g","h","i","j","k","l","m",
     "n","o","p","q","r","s","t","u","v","w","x","y","z"}

Digits == {"0","1","2","3","4","5","6","7","8","9"}

Alphanum == Uppercase \cup Lowercase \cup Digits

\* string.ascii_lowercase, in order
AsciiLowercase ==
    <<"a","b","c","d","e","f","g","h","i","j","k","l","m",
      "n","o","p","q","r","s","t","u","v","w","x","y","z">>

\* the printable ASCII characters in code point order, from 32 (space); the
\* grave accent (96) is written by name, as the lexer does not take it
Ascii ==
    <<" ","!","\"","#","$","%","&","'","(",")","*","+",",","-",".","/",
      "0","1","2","3","4","5","6","7","8","9",":",";","<","=",">","?",
      "@","A","B","C","D","E","F","G","H","I","J","K","L","M","N","O",
      "P","Q","R","S","T","U","V","W","X","Y","Z","[","\\","]","^","_",
      "grave","a","b","c","d","e","f","g","h","i","j","k","l","m","n","o",
      "p","q","r","s","t","u","v","w","x","y","z","{","|","}","~">>

Ord(c) == 31 + (CHOOSE i \in 1..Len(Ascii) : Ascii[i] = c)

\* ------------------------------------------------------------ text helpers

Max(S) == CHOOSE x \in S : \A y \in S : y <= x

Min2(a, b) == IF a <= b THEN a ELSE b

Range(f) == {f[x] : x \in DOMAIN f}

\* the ordering Python gives of two strings: by code point, a proper prefix first
StrLess(a, b) ==
    \E k \in 1..(Min2(Len(a), Len(b)) + 1) :
        /\ \A j \in 1..(k - 1) : a[j] = b[j]
        /\ \/ k > Len(a) /\ k <= Len(b)
           \/ k <= Len(a) /\ k <= Len(b) /\ Ord(a[k]) < Ord(b[k])

\* sorted(S) for a set of strings
RECURSIVE Sorted(_)
Sorted(S) ==
    IF S = {} THEN <<>>
    ELSE LET m == CHOOSE x \in S : \A y \in S \ {x} : StrLess(x, y)
         IN  <<m>> \o Sorted(S \ {m})

\* u' '.join(seq)
RECURSIVE Join(_)
Join(seq) ==
    IF Len(seq) = 0 THEN <<>>
    ELSE IF Len(seq) = 1 THEN seq[1]
    ELSE seq[1] \o <<" ">> \o Join(Tail(seq))

\* sum(c in cls for c in value)
CountIn(value, cls) == Cardinality({i \in 1..Len(value) : value[i] \in cls})

\* ------------------------------------------------------------ re_http_url

\* \w
WordChars == Alphanum \cup {"_"}

\* [\w/%?#&_\-=.,]
UrlBodyChars == WordChars \cup {"/","%","?","#","&","_","-","=",".",","}

\* [\w/%?#&_\-]
UrlLastChars == WordChars \cup {"/","%","?","#","&","_","-"}

StartsWith(s, i, p) ==
    /\ i + Len(p) - 1 <= Len(s)
    /\ \A k \in 1..Len(p) : s[i + k - 1] = p[k]

\* \b between s[i-1] and s[i]
WordBoundary(s, i) ==
    (i > 1 /\ s[i - 1] \in WordChars) # (i <= Len(s) /\ s[i] \in WordChars)

\* length of "https?://" matched at i, 0 when it does not match
SchemeLen(s, i) ==
    IF StartsWith(s, i, <<"h","t","t","p","s",":","/","/">>) THEN 8
    ELSE IF StartsWith(s, i, <<"h","t","t","p",":","/","/">>) THEN 7
    ELSE 0

\* length of the longest run of UrlBodyChars starting at b
BodyRun(s, b) ==
    CHOOSE k \in 0..(Len(s) - b + 1) :
        /\ \A j \in 0..(k - 1) : s[b + j] \in UrlBodyChars
        /\ b + k > Len(s) \/ s[b + k] \notin UrlBodyChars

\* re_http_url.match at position i: the index of the last character of the
\* match, 0 when there is none.  The greedy + gives characters back until
\* the last one is in UrlLastChars; the lookahead (?=[\'<>.,]?) matches the
\* empty string and never fails.
MatchEnd(s, i) ==
    LET sl == SchemeLen(s, i)
        b  == i + sl
        k  == BodyRun(s, b)
        ms == {m \in 2..k : s[b + m - 1] \in UrlLastChars}
    IN  IF ~WordBoundary(s, i) \/ sl = 0 \/ ms = {} THEN 0
        ELSE b + Max(ms) - 1

\* re_http_url.findall(text): the matches, leftmost first, not overlapping
RECURSIVE FindAllFrom(_, _)
FindAllFrom(s, i) ==
    IF i > Len(s) THEN <<>>
    ELSE LET e == MatchEnd(s, i)
         IN  IF e = 0 THEN FindAllFrom(s, i + 1)
             ELSE <<SubSeq(s, i, e)>> \o FindAllFrom(s, e + 1)

Urls(text) == Range(FindAllFrom(text, 1))

\* ------------------------------------------------- keep_urls_preprocess

\* magic = 'lskmqs'
magic == <<"l","s","k","m","q","s">>

RandLetters == {AsciiLowercase[i] : i \in 1..NumRandLetters}

\* the values ''.join(random.sample(string.ascii_lowercase, 1)[0] for _ in
\* xrange(16)) takes: the tail is one random draw, kept as one letter
Suffixes == {<<c>> : c \in RandLetters}

\* the sequences of random tails one call of keep_urls_preprocess may draw:
\* one for every URL seen for the first time
Draws(text) == [1..Cardinality(Urls(text)) -> Suffixes]

\* d with key k set to v
DictSet(d, k, v) ==
    [x \in DOMAIN d \cup {k} |-> IF x = k THEN v ELSE d[x]]

EmptyDict == [x \in {} |-> 0]

\* re_http_url.sub(_preprocessor, text) with the closure's two maps; draws
\* are the random tails still to be used
RECURSIVE SubFrom(_, _, _, _, _, _)
SubFrom(s, i, out, pmap, rmap, draws) ==
    IF i > Len(s) THEN [text |-> out, map |-> pmap]
    ELSE LET e == MatchEnd(s, i)
         IN  IF e = 0
             THEN SubFrom(s, i + 1, Append(out, s[i]), pmap, rmap, draws)
             ELSE LET url == SubSeq(s, i, e)
                  IN  IF url \in DOMAIN rmap
                      THEN SubFrom(s, e + 1, out \o rmap[url], pmap, rmap, draws)
                      ELSE LET repl == magic \o Head(draws)
                           IN  SubFrom(s, e + 1, out \o repl,
                                       DictSet(pmap, repl, url),
                                       DictSet(rmap, url, repl),
                                       Tail(draws))

keep_urls_preprocess(text, draws) ==
    SubFrom(text, 1, <<>>, EmptyDict, EmptyDict, draws)

\* --------------------------------------------------- nltk.word_tokenize

\* characters the tokenizer splits off as tokens of their own
SplitChars == {":", ","}

\* nltk.word_tokenize(text), to the extent the callers depend on it: the
\* text is cut at white space, and a colon or a comma is a token of its own;
\* a run of letters and digits (a placeholder) is never cut
RECURSIVE TokenizeFrom(_, _, _, _)
TokenizeFrom(s, i, cur, out) ==
    LET flushed == IF cur = <<>> THEN out ELSE Append(out, cur)
    IN  IF i > Len(s) THEN flushed
        ELSE IF s[i] = " " THEN TokenizeFrom(s, i + 1, <<>>, flushed)
        ELSE IF s[i] \in SplitChars
             THEN TokenizeFrom(s, i + 1, <<>>, Append(flushed, <<s[i]>>))
        ELSE TokenizeFrom(s, i + 1, Append(cur, s[i]), out)

word_tokenize(text) == TokenizeFrom(text, 1, <<>>, <<>>)

\* ------------------------------------------------ keep_urls_postprocess

\* chunk.replace(key, value): every occurrence, left to right
RECURSIVE ReplaceFrom(_, _, _, _)
ReplaceFrom(s, i, key, value) ==
    IF i > Len(s) THEN <<>>
    ELSE IF Len(key) > 0 /\ StartsWith(s, i, key)
         THEN value \o ReplaceFrom(s, i + Len(key), key, value)
         ELSE <<s[i]>> \o ReplaceFrom(s, i + 1, key, value)

\* for key, value in preprocessor_map.iteritems(): chunk = chunk.replace(...)
RECURSIVE ReplaceAll(_, _, _)
ReplaceAll(chunk, keys, preprocessor_map) ==
    IF Len(keys) = 0 THEN chunk
    ELSE ReplaceAll(ReplaceFrom(chunk, 1, keys[1], preprocessor_map[keys[1]]),
                    Tail(keys), preprocessor_map)

\* the loop "for chunk in <iterated>: ...; ret.append(chunk)" from item i on
RECURSIVE PostLoop(_, _, _, _)
PostLoop(iterated, i, ret, preprocessor_map) ==
    IF i > Len(iterated) THEN ret
    ELSE PostLoop(iterated, i + 1,
                  Append(ret, ReplaceAll(iterated[i],
                                         Sorted(DOMAIN preprocessor_map),
                                         preprocessor_map)),
                  preprocessor_map)

\* ret = []; for chunk in ret: ...: the loop runs over the result list, which
\* is empty when the loop starts, and not over chunks
keep_urls_postprocess(chunks, preprocessor_map) ==
    LET ret == <<>>
    IN  PostLoop(ret, 1, ret, preprocessor_map)

\* ------------------------------------------------------ extend_with_diff

\* the dict extend_with_diff returns, from its four sorted lists
DiffRet(diff_set, neg_diff_set, url_diff_set, neg_url_diff_set) ==
    [diff |-> Join(diff_set),
     neg_diff |-> Join(neg_diff_set),
     urls |-> Join(url_diff_set),
     neg_urls |-> Join(neg_url_diff_set),
     urls_added |-> Len(url_diff_set) # 0,
     urls_removed |-> Len(neg_url_diff_set) # 0]

\* the positive and negative diffs of the chunk sets and of the URL sets
DiffOfSets(old_rev_set, new_rev_set, old_rev_urls, new_rev_urls) ==
    DiffRet(Sorted(new_rev_set \ old_rev_set),
            Sorted(old_rev_set \ new_rev_set),
            Sorted(new_rev_urls \ old_rev_urls),
            Sorted(old_rev_urls \ new_rev_urls))

\* extend_with_diff from the tokenization on; old_pre and new_pre are what
\* keep_urls_preprocess returned: the text and the map
DiffOfPre(old_pre, new_pre) ==
    DiffOfSets(Range(keep_urls_postprocess(word_tokenize(old_pre.text), old_pre.map)),
               Range(keep_urls_postprocess(word_tokenize(new_pre.text), new_pre.map)),
               Range(old_pre.map),
               Range(new_pre.map))

\* old_draws and new_draws are the random tails the two calls of
\* keep_urls_preprocess draw
extend_with_diff(oldrevision, newrevision, old_draws, new_draws) ==
    DiffOfPre(keep_urls_preprocess(oldrevision, old_draws),
              keep_urls_preprocess(newrevision, new_draws))

\* ------------------------------------------------------------- numbers

RECURSIVE Gcd(_, _)
Gcd(a, b) == IF b = 0 THEN a ELSE Gcd(b, a % b)

\* the value of n / d under "from __future__ import division", d > 0: the
\* fraction in lowest terms (equal quotients are equal floats)
Ratio(n, d) == LET g == Gcd(n, d) IN [num |-> n \div g, den |-> d \div g]

\* None where a ratio is expected
NoneRatio == [num |-> 0, den |-> 0]

\* --------------------------------------- extend_with_basic_text_metrics

extend_with_basic_text_metrics(oldrevision, newrevision, editcomment) ==
    [difflen |-> Len(newrevision) - Len(oldrevision),
     commentlen |-> Len(editcomment),
     empty_comment |-> Len(editcomment) = 0,
     blanking |-> Len(newrevision) = 0,
     sz_ratio |-> Ratio(Len(newrevision) + 1, Len(oldrevision) + 1)]

\* -------------------------------------------- extend_with_ratio_metrics

\* the number of codes LZW emits for value: len(list(lzw.compress(...)))
RECURSIVE LzwFrom(_, _, _, _)
LzwFrom(value, i, w, table) ==
    IF i > Len(value) THEN (IF w = <<>> THEN 0 ELSE 1)
    ELSE LET wc == Append(w, value[i])
         IN  IF Len(wc) = 1 \/ wc \in table
             THEN LzwFrom(value, i + 1, wc, table)
             ELSE 1 + LzwFrom(value, i + 1, <<value[i]>>, table \cup {wc})

CompressedLen(value) == LzwFrom(value, 1, <<>>, {})

\* the five entries ret.update adds for one key; value is record[key]
RatioEntries(value) ==
    LET total_len == Len(value)
        upper_len == CountIn(value, Uppercase)
        \* lower_len = sum(c in uppercase for c in value)
        lower_len == CountIn(value, Uppercase)
        digits_len == CountIn(value, Digits)
        alnum_len == CountIn(value, Alphanum)
        \* "if value == 0" is never true of a string
        compressed_len == CompressedLen(value)
    IN  [ul_ratio |-> IF lower_len = 0 THEN NoneRatio
                      ELSE Ratio(upper_len, lower_len),
         u_ratio |-> IF total_len = 0 THEN NoneRatio
                     ELSE Ratio(upper_len, total_len),
         d_ratio |-> IF total_len = 0 THEN NoneRatio
                     ELSE Ratio(digits_len, total_len),
         non_alnum_ratio |-> IF total_len = 0 THEN NoneRatio
                             ELSE Ratio(total_len - alnum_len, total_len),
         compressibility |-> IF compressed_len = 0 THEN NoneRatio
                             ELSE Ratio(total_len, compressed_len)]

\* the keys extend_with_ratio_metrics loops over
RatioKeys == {"diff", "neg_diff", "editcomment"}

RatioSuffixes ==
    {"ul_ratio", "u_ratio", "d_ratio", "non_alnum_ratio", "compressibility"}

\* key + '_ul_ratio' and so on, for the three keys
RatioField(key, suffix) ==
    CASE key = "diff" /\ suffix = "ul_ratio" -> "diff_ul_ratio"
      [] key = "diff" /\ suffix = "u_ratio" -> "diff_u_ratio"
      [] key = "diff" /\ suffix = "d_ratio" -> "diff_d_ratio"
      [] key = "diff" /\ suffix = "non_alnum_ratio" -> "diff_non_alnum_ratio"
      [] key = "diff" /\ suffix = "compressibility" -> "diff_compressibility"
      [] key = "neg_diff" /\ suffix = "ul_ratio" -> "neg_diff_ul_ratio"
      [] key = "neg_diff" /\ suffix = "u_ratio" -> "neg_diff_u_ratio"
      [] key = "neg_diff" /\ suffix = "d_ratio" -> "neg_diff_d_ratio"
      [] key = "neg_diff" /\ suffix = "non_alnum_ratio" -> "neg_diff_non_alnum_ratio"
      [] key = "neg_diff" /\ suffix = "compressibility" -> "neg_diff_compressibility"
      [] key = "editcomment" /\ suffix = "ul_ratio" -> "editcomment_ul_ratio"
      [] key = "editcomment" /\ suffix = "u_ratio" -> "editcomment_u_ratio"
      [] key = "editcomment" /\ suffix = "d_ratio" -> "editcomment_d_ratio"
      [] key = "editcomment" /\ suffix = "non_alnum_ratio" -> "editcomment_non_alnum_ratio"
      [] key = "editcomment" /\ suffix = "compressibility" -> "editcomment_compressibility"

RatioFields == {RatioField(k, x) : k \in RatioKeys, x \in RatioSuffixes}

extend_with_ratio_metrics(record) ==
    [f \in RatioFields |->
        LET k == CHOOSE k \in RatioKeys : \E x \in RatioSuffixes : RatioField(k, x) = f
            x == CHOOSE x \in RatioSuffixes : RatioField(k, x) = f
        IN  RatioEntries(record[k])[x]]

\* --------------------------------------------------------------- cleanup

\* the list cleanup loops over: its string literals are written without
\* commas between them, so Python joins them into one key
CleanupKeys ==
    {"difflencommentlenempty_commentsz_ratioul_ratiou_ratiod_rationon_alnum_ratiocompressibilitylongest_wordlongest_seqdiff_wordneg_ul_rationeg_u_rationeg_d_rationeg_non_alnum_rationeg_compressibilityneg_longest_wordneg_longest_seqneg_diff_word"}

null == <<"n","u","l","l">>

\* cleanup(**record): record is the dict built for the call, so the pops
\* change that dict only; the caller gets the return value
cleanup(record) ==
    LET popped == [k \in DOMAIN record \ CleanupKeys |-> record[k]]
    IN  IF popped["editcomment"] = null THEN [editcomment |-> <<>>]
        ELSE EmptyDict

\* ----------------------------------------------------------------- apply

\* dict(record, **ret)
Merge(record, ret) ==
    [k \in DOMAIN record \cup DOMAIN ret |->
        IF k \in DOMAIN ret THEN ret[k] ELSE record[k]]

\* func(**record); the draws are used by extend_with_diff only
CallFunc(func, record, old_draws, new_draws) ==
    CASE func = "cleanup" -> cleanup(record)
      [] func = "extend_with_diff" ->
            extend_with_diff(record["oldrevision"], record["newrevision"],
                             old_draws, new_draws)
      [] func = "extend_with_basic_text_metrics" ->
            extend_with_basic_text_metrics(record["oldrevision"],
                                           record["newrevision"],
                                           record["editcomment"])
      [] func = "extend_with_ratio_metrics" -> extend_with_ratio_metrics(record)

\* if ret: record = dict(record, **ret)
MergeRet(record, ret) == IF ret # EmptyDict THEN Merge(record, ret) ELSE record

\* one pass of "for func in functions"
ChainStep(func, record, old_draws, new_draws) ==
    MergeRet(record, CallFunc(func, record, old_draws, new_draws))

\* the record after the whole chain
RunChain(funcs, record, old_draws, new_draws) ==
    LET after[i \in 0..Len(funcs)] ==
            IF i = 0 THEN record
            ELSE ChainStep(funcs[i], after[i - 1], old_draws, new_draws)
    IN  after[Len(funcs)]

\* if record != orig_record
\* a variant that takes every record for changed
Changed_Always(record, orig_record) == TRUE

Changed(record, orig_record) == record # orig_record

\* corpus.update({'_id': id}, record): the first document with that _id is
\* replaced by record
Update(collection, id, record) ==
    LET hits == {j \in 1..Len(collection) : collection[j]["_id"] = id}
    IN  IF hits = {} THEN collection
        ELSE LET first == CHOOSE j \in hits : \A k \in hits : j <= k
             IN  [collection EXCEPT ![first] = record]

\* what one pass of the loop of apply did: the document read, the record
\* after the chain, and the _id corpus.update was called with, if it was
Visit(orig_record, record) ==
    [orig |-> orig_record,
     record |-> record,
     updated |-> IF Changed(record, orig_record) THEN {record["_id"]} ELSE {}]

\* the collection after that pass
Written(collection, visit) ==
    IF visit.updated = {} THEN collection
    ELSE Update(collection, CHOOSE id \in visit.updated : TRUE, visit.record)

\* the chain apply_all passes to apply
ApplyAllChain ==
    <<"cleanup", "extend_with_diff", "extend_with_basic_text_metrics",
      "extend_with_ratio_metrics">>

\* the chains apply is called with; none raises on a document that holds
\* oldrevision, newrevision and editcomment
Chains ==
    {<<>>, <<"cleanup">>, <<"extend_with_diff">>,
     <<"extend_with_basic_text_metrics">>,
     <<"extend_with_diff", "extend_with_ratio_metrics">>, ApplyAllChain}

UsesDiff(functions) == \E i \in 1..Len(functions) : functions[i] = "extend_with_diff"

\* ------------------------------------------------------------ input texts

Url1 == <<"h","t","t","p",":","/","/","a","b">>
Url2 == <<"h","t","t","p","s",":","/","/","c",".","d">>

\* the pieces input texts are made of: two URLs, a URL followed by a comma,
\* and two words
Pieces == {Url1, Url1 \o <<",">>, Url2, <<"H","i">>, <<"x","1">>}

Texts == {Join(ps) : ps \in UNION {[1..n -> Pieces] : n \in 0..MaxPieces}}

Comments == {<<>>, null, <<"A","b","1">>, <<"a","b","!">>}

\* the documents the corpus initially holds (without _id): revisions with and
\* without URLs, a comment that is 'null' or not, fields of an earlier
\* version of the extension functions present or not
NoUrls == [oldrevision |-> <<>>, newrevision |-> <<"H","i">>]
WithUrls == [oldrevision |-> Url1, newrevision |-> Url1 \o <<" ">> \o Url2]
Legacy == [difflen |-> 7, diff_word |-> <<"z">>]

Documents ==
    {Merge(NoUrls, [editcomment |-> null]),
     Merge(Merge(NoUrls, [editcomment |-> <<"A","b","1">>]), Legacy),
     Merge(WithUrls, [editcomment |-> <<"A","b","1">>]),
     Merge(Merge(WithUrls, [editcomment |-> null]), Legacy)}

\* a collection of the documents ds, each with its _id
WithIds(ds) == [j \in 1..Len(ds) |-> Merge(ds[j], [_id |-> j])]

Corpora == {WithIds(ds) : ds \in UNION {[1..n -> Documents] : n \in 0..MaxRecords}}

\* ----------------------------------------------------------- api_request

\* a parameter value: a str, or a list of str; parts are the pieces between
\* the "|" of a str, or the members of a list
Str(parts) == [list |-> FALSE, parts |-> parts]
List(parts) == [list |-> TRUE, parts |-> parts]

\* the keyword names in use, in the order sorted() puts them
KwOrder ==
    <<"action", "format", "list", "pageids", "prop", "rvcontinue", "rvend",
      "rvlimit", "rvprop", "rvstartid", "usprop", "ususers">>

KwIndex(k) == CHOOSE i \in 1..Len(KwOrder) : KwOrder[i] = k

\* a dict is kept as the sequence of its items <<key, value>>, in the order
\* the dict yields them; d[k] = v puts v in place, or adds the item
Keys(items) == {items[i][1] : i \in 1..Len(items)}

SetItem(items, k, v) ==
    IF k \in Keys(items)
    THEN [i \in 1..Len(items) |-> IF items[i][1] = k THEN <<k, v>> ELSE items[i]]
    ELSE Append(items, <<k, v>>)

GetItem(items, k) == (CHOOSE i \in 1..Len(items) : items[i][1] = k)

\* if isinstance(v, list): kw[k] = '|'.join(v)
JoinLists(items) ==
    [i \in 1..Len(items) |-> <<items[i][1], Str(items[i][2].parts)>>]

\* params = dict(action=action, **kw), after kw.update(format='json') and
\* the joining of lists
ApiParams(action, kw) ==
    SetItem(JoinLists(SetItem(kw, "format", Str(<<"json">>))),
            "action", Str(<<action>>))

\* sorted(params.iteritems()): by key, and the keys of a dict differ; the
\* keys come in the order KwOrder has them
SortedKeys(items) ==
    LET present == {items[i][1] : i \in 1..Len(items)}
        held(k) == k \in present
    IN  SelectSeq(KwOrder, held)

SortedItems(items) ==
    LET keys == SortedKeys(items)
    IN  [i \in 1..Len(items) |->
            items[CHOOSE m \in 1..Len(items) : items[m][1] = keys[i]]]

\* urllib.urlencode(pairs): key=value joined by "&", kept as the pairs
UrlEncode(pairs) == [i \in 1..Len(pairs) |-> <<pairs[i][1], pairs[i][2].parts>>]

\* a variant that leaves the items in the order of the dict
CacheKey_Unsorted(params) == UrlEncode(params)

\* cache_key = urllib.urlencode(sorted(params.iteritems()))
CacheKey(params) == UrlEncode(SortedItems(params))

\* httpcache.find_one({'key': cache_key}): the first such document in a
\* one-element sequence, or the empty sequence for None
FindOne(collection, cache_key) ==
    LET hits == {j \in 1..Len(collection) : collection[j].key = cache_key}
    IN  IF hits = {} THEN <<>>
        ELSE <<collection[CHOOSE j \in hits : \A k \in hits : j <= k]>>

\* ---------------------------------------------------- get_page_revisions

Tokens == {ToString(i) : i \in 1..NumTokens}

\* the values of rvcontinue: None (the empty sequence) or one token
Continues == {<<>>} \cup {<<t>> : t \in Tokens}

\* the revisions of the page of results a request with rvcontinue c brings
Revisions(c) == <<[page |-> c, rev |-> "a"], [page |-> c, rev |-> "b"]>>

\* what the server may hold: for every request of revisions, its page and,
\* under 'query-continue', the rvcontinue of the next page (or nothing)
Servers ==
    {[c \in Continues |-> [revisions |-> Revisions(c), query_continue |-> next[c]]] :
        next \in [Continues -> Continues]}

\* the replies to a request that is not for revisions
OtherReplies ==
    {[revisions |-> <<[page |-> <<>>, rev |-> x]>>, query_continue |-> <<>>] :
        x \in {"a", "b"}}

PageId == "7"
RevisionId == "9"

\* kwargs = dict(prop='revisions', pageids=page_id, rvstartid=revision_id,
\* rvend=rvend, rvprop=rvprop, rvlimit=rvlimit)
BaseKwargs(page_id, revision_id) ==
    << <<"prop", Str(<<"revisions">>)>>,
       <<"pageids", Str(<<page_id>>)>>,
       <<"rvstartid", Str(<<revision_id>>)>>,
       <<"rvend", Str(<<"1230768000">>)>>,
       <<"rvprop", Str(<<"ids", "flags", "timestamp", "user", "size">>)>>,
       <<"rvlimit", Str(<<"500">>)>> >>

\* a variant that never sends rvcontinue
PageKwargs_First(page_id, revision_id, cont) == BaseKwargs(page_id, revision_id)

\* the kwargs of one pass of the loop: if rvcontinue is not None:
\* kwargs['rvcontinue'] = rvcontinue
PageKwargs(page_id, revision_id, cont) ==
    IF cont # <<>>
    THEN SetItem(BaseKwargs(page_id, revision_id), "rvcontinue", Str(cont))
    ELSE BaseKwargs(page_id, revision_id)

\* the loop of get_page_revisions may run this often in the model: once more
\* than a chain through every token needs
MaxIter == NumTokens + 2

\* ------------------------------------------------------ fill_editors_info

\* the length of the run of digits of s from position i
RECURSIVE DigitRun(_, _)
DigitRun(s, i) ==
    IF i <= Len(s) /\ s[i] \in Digits THEN 1 + DigitRun(s, i + 1) ELSE 0

\* \d{1,3}\. tried at position i, groups more times, and then \d{1,3}$:
\* a run of digits takes all its digits or fails, for what follows a group
\* is no digit. Editor names hold no newline, so $ is the end of the name
RECURSIVE IpGroups(_, _, _)
IpGroups(s, i, groups) ==
    \E run \in {DigitRun(s, i)} :
        /\ run >= 1
        /\ run <= 3
        /\ IF groups = 0 THEN i + run = Len(s) + 1
           ELSE /\ i + run <= Len(s)
                /\ s[i + run] = "."
                /\ IpGroups(s, i + run + 1, groups - 1)

\* a variant that matches no name
re_ip_match_Never(editor) == FALSE

\* re_ip.match(editor)
re_ip_match(editor) == IpGroups(editor, 1, 3)

\* a value that is a set: it is no list, so it is not joined, and its text
\* is that of the set
SetOf(names) == [list |-> FALSE, parts |-> <<names>>]

\* usprop = 'blockinfo|groups|editcount|registration|emailable|gender'
usprop ==
    Str(<<"blockinfo", "groups", "editcount", "registration", "emailable", "gender">>)

\* the keywords of api_request(list='users', ususers=current, usprop=usprop)
UsersKwargs(cur) ==
    << <<"list", Str(<<"users">>)>>, <<"ususers", SetOf(cur)>>, <<"usprop", usprop>> >>

\* the names a request for users carries
RequestedUsers(params) == params[GetItem(params, "ususers")][2].parts[1]

\* what the server may answer under ['query']['users'] to a request for the
\* users names: a record for each of them in the order of the names, or none
UsersReplies(names) ==
    {[users |-> [i \in 1..Len(byname) |-> [name |-> byname[i]]]] :
        byname \in {Sorted(names), <<>>}}

\* the editor names the records of the corpus carry: shaped like an IPv4
\* address, nearly so, and not at all
Editors ==
    {<<"1",".","2","2",".","3",".","4","4","4">>,
     <<"1",".","2",".","3">>,
     <<"1","2","3","4",".","5",".","6",".","7">>,
     <<"1",".","2",".","3",".","4","x">>,
     <<"A","b">>,
     <<"c">>}

\* the corpus as corpus.find({}, fields=['editor']) yields it
EditorCorpora ==
    UNION {[1..n -> {[editor |-> e] : e \in Editors}] : n \in 0..MaxScan}

\* ---------------------------------------------------------------- state

VARIABLES
    \* the extension functions called on one edit
    inp,          \* the edit: oldrevision, newrevision, editcomment
    t_pc,         \* "input", "diffed", "done"
    pre,          \* what keep_urls_preprocess returned for old and new
    tokens,       \* what nltk.word_tokenize returned for old and new
    chunks,       \* what keep_urls_postprocess returned for old and new
    diff_ret,     \* what extend_with_diff returned
    ratio_ret,    \* what extend_with_ratio_metrics returned
    \* apply over the corpus
    corpus,       \* the corpus collection, in cursor order
    functions,    \* the chain apply is called with
    running,      \* apply is inside its loop
    cursor,       \* the position of the next document corpus.find() yields
    runs,         \* the complete runs of apply so far: 0, 1, or 2 for more
    before,       \* the corpus as it was when the current run started
    log,          \* per document visited in this run: what was read,
                  \* computed and written
    \* the Wikipedia API helpers
    server,       \* what the server answers to a request of revisions
    httpcache,    \* the httpcache collection, in insertion order
    http_log,     \* the params of every requests.get so far
    last_call,    \* the last api_request call: action, kw, return value
    g_pc,         \* get_page_revisions: "idle", "loop", "done"
    rvcontinue,   \* its rvcontinue
    g_ret,        \* its ret
    g_reqs,       \* the kwargs of its api_request calls so far
    g_resps,      \* the responses to them
    \* fill_editors_info
    f_pc,         \* "idle", "scan", "done"
    f_cursor,     \* the position of the next record its cursor yields
    seen,         \* its seen
    current,      \* its current
    users,        \* the users collection: the records inserted, in order
    f_reqs        \* the ususers of its api_request calls so far

textVars == <<inp, t_pc, pre, tokens, chunks, diff_ret, ratio_ret>>
applyVars == <<corpus, functions, running, cursor, runs, before, log>>
apiVars == <<server, httpcache, http_log, last_call, g_pc, rvcontinue, g_ret,
             g_reqs, g_resps>>
fillVars == <<f_pc, f_cursor, seen, current, users, f_reqs>>
vars == <<textVars, applyVars, apiVars, fillVars>>

\* ------------------------------------------------- one edit, step by step

NoPre == [text |-> <<>>, map |-> EmptyDict]

TextIdle ==
    /\ t_pc = "input"
    /\ pre = [old |-> NoPre, new |-> NoPre]
    /\ tokens = [old |-> <<>>, new |-> <<>>]
    /\ chunks = [old |-> <<>>, new |-> <<>>]
    /\ diff_ret = EmptyDict
    /\ ratio_ret = EmptyDict

ApplyIdle ==
    /\ corpus = <<>>
    /\ functions = <<>>
    /\ running = FALSE
    /\ cursor = 1
    /\ runs = 0
    /\ before = <<>>
    /\ log = <<>>

FillIdle ==
    /\ f_pc = "idle"
    /\ f_cursor = 1
    /\ seen = {}
    /\ current = {}
    /\ users = <<>>
    /\ f_reqs = <<>>

NoCall == [action |-> "", kw |-> <<>>, ret |-> EmptyDict]

PagesIdle ==
    /\ g_pc = "idle"
    /\ rvcontinue = <<>>
    /\ g_ret = <<>>
    /\ g_reqs = <<>>
    /\ g_resps = <<>>

ApiIdle ==
    /\ server = [c \in Continues |-> [revisions |-> Revisions(c), query_continue |-> <<>>]]
    /\ httpcache = <<>>
    /\ http_log = <<>>
    /\ last_call = NoCall
    /\ PagesIdle

NoEdit == inp = [oldrevision |-> <<>>, newrevision |-> <<>>, editcomment |-> <<>>]

TextInit ==
    /\ inp \in [oldrevision : Texts, newrevision : Texts, editcomment : Comments]
    /\ TextIdle
    /\ FillIdle
    /\ ApplyIdle
    /\ ApiIdle

\* extend_with_diff(**inp), with what its calls returned
ExtendWithDiff ==
    /\ t_pc = "input"
    /\ \E od \in Draws(inp.oldrevision), nd \in Draws(inp.newrevision) :
         pre' = [old |-> keep_urls_preprocess(inp.oldrevision, od),
                 new |-> keep_urls_preprocess(inp.newrevision, nd)]
    /\ tokens' = [old |-> word_tokenize(pre'.old.text),
                  new |-> word_tokenize(pre'.new.text)]
    /\ chunks' = [old |-> keep_urls_postprocess(tokens'.old, pre'.old.map),
                  new |-> keep_urls_postprocess(tokens'.new, pre'.new.map)]
    /\ diff_ret' = DiffOfPre(pre'.old, pre'.new)
    /\ t_pc' = "diffed"
    /\ UNCHANGED <<inp, ratio_ret, applyVars, apiVars, fillVars>>

\* extend_with_ratio_metrics(**record), record being the edit merged with
\* what extend_with_diff returned
ExtendWithRatioMetrics ==
    /\ t_pc = "diffed"
    /\ ratio_ret' = extend_with_ratio_metrics(Merge(inp, diff_ret))
    /\ t_pc' = "done"
    /\ UNCHANGED <<inp, pre, tokens, chunks, diff_ret, applyVars, apiVars, fillVars>>

TextNext == ExtendWithDiff \/ ExtendWithRatioMetrics

TextSpec == TextInit /\ [][TextNext]_vars

\* ----------------------------------------------- claims about one edit

\* tokens with every placeholder replaced by the URL the map gives for it
Restored(toks, map) ==
    [i \in 1..Len(toks) |->
        IF toks[i] \in DOMAIN map THEN map[toks[i]] ELSE toks[i]]

\* C2: keep_urls_postprocess applied to the tokens of the preprocessed text
\* returns as many tokens as it was given, every placeholder replaced by its
\* URL and every other token unchanged, so that every URL of the text is one
\* token of the result.
C2_UrlRoundTrip ==
    t_pc # "input" =>
        /\ chunks.old = Restored(tokens.old, pre.old.map)
        /\ chunks.new = Restored(tokens.new, pre.new.map)
        /\ Urls(inp.oldrevision) \subseteq Range(chunks.old)
        /\ Urls(inp.newrevision) \subseteq Range(chunks.new)

\* the tokens of a revision, URLs kept whole
TokenSet(toks, map) == Range(Restored(toks, map))

\* C3: 'diff' is the sorted, space-joined set of the tokens of the new
\* revision that are not tokens of the old one, 'neg_diff' the same the
\* other way round; a token only the new revision has makes 'diff' non-empty.
C3_TokenDiff ==
    t_pc # "input" =>
        LET old_set == TokenSet(tokens.old, pre.old.map)
            new_set == TokenSet(tokens.new, pre.new.map)
        IN  /\ diff_ret.diff = Join(Sorted(new_set \ old_set))
            /\ diff_ret.neg_diff = Join(Sorted(old_set \ new_set))
            /\ new_set \ old_set # {} => diff_ret.diff # <<>>

\* C4: 'urls' is the sorted, space-joined set of the URLs of the new revision
\* that the old one lacks, 'neg_urls' the same the other way round,
\* urls_added and urls_removed say whether they are non-empty, and a URL of
\* both revisions is in neither.
C4_UrlDiff ==
    t_pc # "input" =>
        LET old_urls == Urls(inp.oldrevision)
            new_urls == Urls(inp.newrevision)
        IN  /\ diff_ret.urls = Join(Sorted(new_urls \ old_urls))
            /\ diff_ret.neg_urls = Join(Sorted(old_urls \ new_urls))
            /\ diff_ret.urls_added = (diff_ret.urls # <<>>)
            /\ diff_ret.urls_removed = (diff_ret.neg_urls # <<>>)

\* the four ratios the claim gives for one text
ClaimedRatios(value) ==
    [ul_ratio |-> IF CountIn(value, Lowercase) = 0 THEN NoneRatio
                  ELSE Ratio(CountIn(value, Uppercase), CountIn(value, Lowercase)),
     u_ratio |-> IF Len(value) = 0 THEN NoneRatio
                 ELSE Ratio(CountIn(value, Uppercase), Len(value)),
     d_ratio |-> IF Len(value) = 0 THEN NoneRatio
                 ELSE Ratio(CountIn(value, Digits), Len(value)),
     non_alnum_ratio |-> IF Len(value) = 0 THEN NoneRatio
                         ELSE Ratio(Len(value) - CountIn(value, Alphanum), Len(value))]

\* C7: for 'diff', 'neg_diff' and 'editcomment', <key>_ul_ratio is uppercase
\* over lowercase letters (None without a lowercase letter), and _u_ratio,
\* _d_ratio, _non_alnum_ratio are the uppercase, digit and non-alphanumeric
\* counts over the length (None for the empty text).
C7_RatioMetrics ==
    t_pc = "done" =>
        \A k \in RatioKeys :
            \A x \in {"ul_ratio", "u_ratio", "d_ratio", "non_alnum_ratio"} :
                ratio_ret[RatioField(k, x)] = ClaimedRatios(Merge(inp, diff_ret)[k])[x]

\* the map is a bijection between the placeholders and the URLs of the text,
\* and putting the URLs back for the placeholders gives the text again
PlaceholdersUnambiguous(text, p) ==
    /\ Range(p.map) = Urls(text)
    /\ Cardinality(DOMAIN p.map) = Cardinality(Urls(text))
    /\ ReplaceAll(p.text, Sorted(DOMAIN p.map), p.map) = text

\* C8: in one text every occurrence of a URL is rewritten to the same
\* placeholder, two URLs never to the same one, and the map has one entry
\* per distinct URL, from its placeholder back to it.
C8_PlaceholderBijection ==
    t_pc # "input" =>
        /\ PlaceholdersUnambiguous(inp.oldrevision, pre.old)
        /\ PlaceholdersUnambiguous(inp.newrevision, pre.new)

\* ------------------------------------------------------ apply, per document

ApplyInit ==
    /\ corpus \in Corpora
    /\ functions \in Chains
    /\ running = FALSE
    /\ cursor = 1
    /\ runs = 0
    /\ before = corpus
    /\ log = <<>>
    /\ NoEdit
    /\ TextIdle
    /\ FillIdle
    /\ ApiIdle

\* apply(*functions) is called: corpus.find() opens a cursor
ApplyStart ==
    /\ ~running
    /\ running' = TRUE
    /\ cursor' = 1
    /\ before' = corpus
    /\ log' = <<>>
    /\ UNCHANGED <<corpus, functions, runs, textVars, apiVars, fillVars>>

\* one pass of the loop body: the next document is read, the chain is run
\* on it, and the result is written when it differs
ApplyRecord ==
    /\ running
    /\ cursor <= Len(corpus)
    /\ \E od \in (IF UsesDiff(functions) THEN Draws(corpus[cursor]["oldrevision"]) ELSE {<<>>}),
          nd \in (IF UsesDiff(functions) THEN Draws(corpus[cursor]["newrevision"]) ELSE {<<>>}) :
         log' = Append(log, Visit(corpus[cursor],
                                  RunChain(functions, corpus[cursor], od, nd)))
    /\ corpus' = Written(corpus, log'[Len(log')])
    /\ cursor' = cursor + 1
    /\ UNCHANGED <<functions, running, runs, before, textVars, apiVars, fillVars>>

\* the cursor is exhausted: apply returns
ApplyReturn ==
    /\ running
    /\ cursor > Len(corpus)
    /\ running' = FALSE
    /\ runs' = Min2(runs + 1, 2)
    /\ UNCHANGED <<corpus, functions, cursor, before, log, textVars, apiVars, fillVars>>

ApplyNext == ApplyStart \/ ApplyRecord \/ ApplyReturn

ApplySpec == ApplyInit /\ [][ApplyNext]_vars

\* ------------------------------------------------- claims about apply

\* the log is that of a complete run
RunComplete == ~running /\ runs > 0

\* C1: apply visits every document of the corpus once, in cursor order, and
\* calls corpus.update, with the _id of the document visited, exactly when
\* the record after the chain differs from the document read; every other
\* document stays as it was.
C1_ApplyWritesChanged ==
    /\ Len(log) = cursor - 1
    /\ Len(corpus) = Len(before)
    /\ RunComplete => Len(log) = Len(corpus)
    /\ \A i \in 1..Len(log) :
        /\ log[i].orig = before[i]
        /\ log[i].updated =
              IF log[i].record # log[i].orig THEN {before[i]["_id"]} ELSE {}
        /\ corpus[i] = IF log[i].record # log[i].orig THEN log[i].record
                       ELSE before[i]
    /\ \A j \in (Len(log) + 1)..Len(corpus) : corpus[j] = before[j]

\* a complete run over two documents, one written and one left alone
C1_Witness ==
    /\ RunComplete
    /\ \E i, j \in 1..Len(log) :
        /\ log[i].updated # {} /\ corpus[i] # before[i]
        /\ log[j].updated = {} /\ log[j].record = log[j].orig

\* the fields cleanup is written to remove
LegacyKeys ==
    {"difflen", "commentlen", "empty_comment", "sz_ratio", "ul_ratio",
     "u_ratio", "d_ratio", "non_alnum_ratio", "compressibility",
     "longest_word", "longest_seq", "diff_word", "neg_ul_ratio",
     "neg_u_ratio", "neg_d_ratio", "neg_non_alnum_ratio",
     "neg_compressibility", "neg_longest_word", "neg_longest_seq",
     "neg_diff_word"}

\* C9: after apply(cleanup) no stored document holds any of the legacy
\* fields, and a document whose editcomment was 'null' has the empty
\* string for it.
C9_CleanupRemovesLegacy ==
    (functions = <<"cleanup">> /\ RunComplete) =>
        \A i \in 1..Len(corpus) :
            /\ DOMAIN corpus[i] \cap LegacyKeys = {}
            /\ before[i]["editcomment"] = null => corpus[i]["editcomment"] = <<>>

\* the log is that of a run that follows a complete run
LaterRun == (running /\ runs >= 1) \/ (~running /\ runs >= 2)

\* C10: a run of apply_all that follows a complete run of apply_all computes
\* for every document a record equal to the stored one and writes nothing.
C10_ApplyAllIdempotent ==
    (functions = ApplyAllChain /\ LaterRun) =>
        \A i \in 1..Len(log) :
            log[i].record = log[i].orig /\ log[i].updated = {}

\* ------------------------------------------------- api_request, per call

\* the replies the server may give to requests.get(base_url, params=params)
ServerReplies(params) ==
    IF "prop" \in Keys(params)
    THEN {server[IF "rvcontinue" \in Keys(params)
                 THEN params[GetItem(params, "rvcontinue")][2].parts
                 ELSE <<>>]}
    ELSE IF "usprop" \in Keys(params)
    THEN UsersReplies(RequestedUsers(params))
    ELSE OtherReplies

\* what api_request(action, **kw) may return: the cached value on a cache
\* hit, on a miss what the server replies
ApiReturns(action, kw) ==
    UNION {UNION {IF FindOne(httpcache, cache_key) # <<>>
                  THEN {FindOne(httpcache, cache_key)[1].val}
                  ELSE ServerReplies(params) :
                  cache_key \in {CacheKey(params)}} :
           params \in {ApiParams(action, kw)}}

\* api_request(action, **kw) returning json_resp: a cache hit changes
\* nothing; on a miss the response is fetched and stored under the key
api_request(action, kw, json_resp) ==
    \E params \in {ApiParams(action, kw)} :
    \E cache_key \in {CacheKey(params)} :
    \E cache_result \in {FindOne(httpcache, cache_key)} :
        /\ last_call' = [action |-> action, kw |-> kw, ret |-> json_resp]
        /\ IF cache_result # <<>>
           THEN UNCHANGED <<httpcache, http_log>>
           ELSE /\ http_log' = Append(http_log, params)
                /\ httpcache' = Append(httpcache, [key |-> cache_key, val |-> json_resp])

\* the calls of api_request followed: the same lookup of users written in
\* several ways, another lookup, and another action
CallInputs ==
    {[action |-> "query",
      kw |-> << <<"list", Str(<<"users">>)>>, <<"ususers", List(<<"A", "B">>)>> >>],
     [action |-> "query",
      kw |-> << <<"ususers", Str(<<"A", "B">>)>>, <<"list", Str(<<"users">>)>> >>],
     [action |-> "query",
      kw |-> << <<"format", Str(<<"xml">>)>>, <<"ususers", List(<<"A", "B">>)>>,
                <<"list", Str(<<"users">>)>> >>],
     [action |-> "query",
      kw |-> << <<"list", Str(<<"users">>)>>, <<"ususers", Str(<<"A">>)>> >>],
     [action |-> "parse", kw |-> <<>>]}

\* the documents the cache may hold when the calls start
CacheDocs ==
    {[key |-> CacheKey(ApiParams(c.action, c.kw)), val |-> v] :
        c \in CallInputs, v \in OtherReplies}

ApiInit ==
    /\ httpcache \in UNION {[1..n -> CacheDocs] : n \in 0..MaxCached}
    /\ http_log = <<>>
    /\ last_call = NoCall
    /\ server = [c \in Continues |-> [revisions |-> Revisions(c), query_continue |-> <<>>]]
    /\ PagesIdle
    /\ NoEdit
    /\ TextIdle
    /\ FillIdle
    /\ ApplyIdle

ApiRequest ==
    /\ \E c \in CallInputs : \E json_resp \in ApiReturns(c.action, c.kw) :
          api_request(c.action, c.kw, json_resp)
    /\ UNCHANGED <<server, g_pc, rvcontinue, g_ret, g_reqs, g_resps, textVars, applyVars, fillVars>>

ApiNext == ApiRequest

ApiSpec == ApiInit /\ [][ApiNext]_vars

\* ---------------------------------------- get_page_revisions, per request

\* the cache may hold what earlier calls got from this server
PageDocs ==
    {[key |-> CacheKey(ApiParams("query", PageKwargs(PageId, RevisionId, c))),
      val |-> server[c]] : c \in Continues}

PagesInit ==
    /\ server \in Servers
    /\ httpcache \in UNION {[1..n -> PageDocs] : n \in 0..MaxCached}
    /\ http_log = <<>>
    /\ last_call = NoCall
    /\ PagesIdle
    /\ NoEdit
    /\ TextIdle
    /\ FillIdle
    /\ ApplyIdle

\* get_page_revisions(page_id, revision_id) is called
GetPageRevisions ==
    /\ g_pc \in {"idle", "done"}
    /\ g_pc' = "loop"
    /\ rvcontinue' = <<>>
    /\ g_ret' = <<>>
    /\ g_reqs' = <<>>
    /\ g_resps' = <<>>
    /\ UNCHANGED <<server, httpcache, http_log, last_call, textVars, applyVars, fillVars>>

\* one pass of "while True": the request, ret += ..., and the break or the
\* new rvcontinue
PageRequest ==
    /\ g_pc = "loop"
    /\ Len(g_resps) < MaxIter
    /\ \E kwargs \in {PageKwargs(PageId, RevisionId, rvcontinue)} :
       \E resp \in ApiReturns("query", kwargs) :
          /\ api_request("query", kwargs, resp)
          /\ g_reqs' = Append(g_reqs, kwargs)
          /\ g_resps' = Append(g_resps, resp)
          /\ g_ret' = g_ret \o resp.revisions
          /\ IF resp.query_continue = <<>>
             THEN g_pc' = "done" /\ rvcontinue' = rvcontinue
             ELSE g_pc' = "loop" /\ rvcontinue' = resp.query_continue
    /\ UNCHANGED <<server, textVars, applyVars, fillVars>>

PagesNext == GetPageRevisions \/ PageRequest

\* the loop goes on until it breaks
PagesSpec == PagesInit /\ [][PagesNext]_vars /\ WF_vars(PageRequest)

\* ------------------------------------------- fill_editors_info, per record

FillInit ==
    /\ corpus \in EditorCorpora
    /\ functions = <<>>
    /\ running = FALSE
    /\ cursor = 1
    /\ runs = 0
    /\ before = <<>>
    /\ log = <<>>
    /\ httpcache = <<>>
    /\ http_log = <<>>
    /\ last_call = NoCall
    /\ server = [c \in Continues |-> [revisions |-> Revisions(c), query_continue |-> <<>>]]
    /\ PagesIdle
    /\ NoEdit
    /\ TextIdle
    /\ FillIdle

\* result = api_request(list='users', ususers=current, usprop=usprop);
\* users.insert(result['query']['users'])
UsersRequest(cur) ==
    \E kw \in {UsersKwargs(cur)} :
    \E result \in ApiReturns("query", kw) :
        /\ api_request("query", kw, result)
        /\ users' = users \o result.users
        /\ f_reqs' = Append(f_reqs, cur)

\* fill_editors_info() is called: the cursor is opened, seen and current
\* are empty
FillEditorsInfo ==
    /\ f_pc = "idle"
    /\ f_pc' = "scan"
    /\ f_cursor' = 1
    /\ seen' = {}
    /\ current' = {}
    /\ UNCHANGED <<users, f_reqs, textVars, applyVars, apiVars>>

\* one pass of the loop over the cursor
FillRecord ==
    /\ f_pc = "scan"
    /\ f_cursor <= Len(corpus)
    /\ f_cursor' = f_cursor + 1
    /\ \E editor \in {corpus[f_cursor]["editor"]} :
          IF re_ip_match(editor) \/ editor \in seen
          THEN UNCHANGED <<seen, current, users, f_reqs, httpcache, http_log, last_call>>
          ELSE \E added \in {current \cup {editor}} :
                  IF Cardinality(added) >= BatchSize
                  THEN /\ seen' = seen \cup added
                       /\ UsersRequest(added)
                       /\ current' = {}
                  ELSE /\ current' = added
                       /\ UNCHANGED <<seen, users, f_reqs, httpcache, http_log, last_call>>
    /\ UNCHANGED <<f_pc, server, g_pc, rvcontinue, g_ret, g_reqs, g_resps,
                   textVars, applyVars>>

\* the cursor is exhausted: what is left in current is requested, and
\* fill_editors_info returns
FillReturn ==
    /\ f_pc = "scan"
    /\ f_cursor > Len(corpus)
    /\ f_pc' = "done"
    /\ IF current # {}
       THEN UsersRequest(current)
       ELSE UNCHANGED <<users, f_reqs, httpcache, http_log, last_call>>
    /\ UNCHANGED <<f_cursor, seen, current, server, g_pc, rvcontinue, g_ret, g_reqs,
                   g_resps, textVars, applyVars>>

FillNext == FillEditorsInfo \/ FillRecord \/ FillReturn

FillSpec == FillInit /\ [][FillNext]_vars

\* ------------------------------------------------ claims about the API

\* the parameter set of a call: action, format and the keywords, each with
\* the text sent for it
ParamSet(action, kw) ==
    {<<it[1], it[2].parts>> : it \in Range(ApiParams(action, kw))}

\* the cache documents filed under a parameter set
Held(collection, P) == {j \in 1..Len(collection) : Range(collection[j].key) = P}

KeySorted(key) ==
    \A i, j \in 1..Len(key) : i < j => KwIndex(key[i][1]) < KwIndex(key[j][1])

Called ==
    \/ last_call' # last_call
    \/ httpcache' # httpcache
    \/ http_log' # http_log

\* a call whose parameter set is in the cache returns the first stored value
\* and leaves the cache and the requests alone; any other call issues one
\* request and stores what it returns under the sorted key
C5_Call ==
    Called =>
        IF Held(httpcache, ParamSet(last_call'.action, last_call'.kw)) # {}
        THEN /\ http_log' = http_log
             /\ httpcache' = httpcache
             /\ \E j \in Held(httpcache, ParamSet(last_call'.action, last_call'.kw)) :
                   /\ \A k \in Held(httpcache, ParamSet(last_call'.action, last_call'.kw)) : j <= k
                   /\ last_call'.ret = httpcache[j].val
        ELSE /\ Len(http_log') = Len(http_log) + 1
             /\ SubSeq(http_log', 1, Len(http_log)) = http_log
             /\ ParamSet(last_call'.action, last_call'.kw) =
                   {<<it[1], it[2].parts>> : it \in Range(http_log'[Len(http_log')])}
             /\ Len(httpcache') = Len(httpcache) + 1
             /\ SubSeq(httpcache', 1, Len(httpcache)) = httpcache
             /\ Range(httpcache'[Len(httpcache')].key) =
                   ParamSet(last_call'.action, last_call'.kw)
             /\ KeySorted(httpcache'[Len(httpcache')].key)
             /\ httpcache'[Len(httpcache')].val = last_call'.ret

\* no two requests were for the same parameter set
OneRequestPerParamSet ==
    \A i, j \in 1..Len(http_log) :
        Range(http_log[i]) = Range(http_log[j]) => i = j

\* C5: api_request is cached by its parameter set: a request goes out only
\* when the cache has no entry for the sorted parameters, a miss stores its
\* response under that key, a later call with the same parameters in any
\* keyword order gets the stored value without a request, and so no
\* parameter set is requested twice.
C5_CachedByParamSet == [][C5_Call]_vars /\ []OneRequestPerParamSet

\* a call was answered from what an earlier call, written with the keywords
\* in another order, had fetched and stored
C5_Witness ==
    \E i \in 1..Len(http_log) :
        /\ Range(ApiParams(last_call.action, last_call.kw)) = Range(http_log[i])
        /\ ApiParams(last_call.action, last_call.kw) # http_log[i]
        /\ \E j \in 1..Len(httpcache) :
              /\ Range(httpcache[j].key) = ParamSet(last_call.action, last_call.kw)
              /\ last_call.ret = httpcache[j].val

RECURSIVE Flatten(_)
Flatten(pages) ==
    IF Len(pages) = 0 THEN <<>>
    ELSE Flatten(SubSeq(pages, 1, Len(pages) - 1)) \o pages[Len(pages)].revisions

\* the server's chain of pages, from the first, ends within n more pages
RECURSIVE EndsWithin(_, _)
EndsWithin(c, n) ==
    \/ server[c].query_continue = <<>>
    \/ n > 0 /\ EndsWithin(server[c].query_continue, n - 1)

ChainFinite == EndsWithin(<<>>, NumTokens)

C6_Requests ==
    /\ Len(g_reqs) = Len(g_resps)
    /\ \A i \in 1..Len(g_reqs) :
          IF i = 1 THEN "rvcontinue" \notin Keys(g_reqs[i])
          ELSE /\ g_resps[i - 1].query_continue # <<>>
               /\ "rvcontinue" \in Keys(g_reqs[i])
               /\ g_reqs[i][GetItem(g_reqs[i], "rvcontinue")][2] =
                     Str(g_resps[i - 1].query_continue)
    /\ \A i \in 1..(Len(g_resps) - 1) : g_resps[i].query_continue # <<>>
    /\ g_pc = "done" =>
          /\ Len(g_resps) >= 1
          /\ g_resps[Len(g_resps)].query_continue = <<>>
    /\ g_pc = "loop" /\ Len(g_resps) >= 1 =>
          g_resps[Len(g_resps)].query_continue # <<>>
    /\ g_ret = Flatten(g_resps)

\* C6: get_page_revisions sends the first request without rvcontinue and
\* every later one with the rvcontinue of the response before it, stops at
\* the first response without 'query-continue', returns the revisions of the
\* pages received, in order and once each, and returns whenever the chain of
\* continuations of the server is finite.
C6_Pagination ==
    /\ []C6_Requests
    /\ (g_pc = "loop" /\ ChainFinite) ~> (g_pc = "done")

\* a run over several pages has returned
C6_Witness ==
    /\ g_pc = "done"
    /\ Len(g_resps) >= 2
    /\ Len(g_ret) = 2 * Len(g_resps)

\* ------------------------------------------ claims about fill_editors_info

\* four groups of one to three digits, with a dot between them
IpShaped(name) ==
    \E d1, d2, d3 \in 1..Len(name) :
        /\ d1 < d2
        /\ d2 < d3
        /\ \A i \in 1..Len(name) :
              IF i \in {d1, d2, d3} THEN name[i] = "." ELSE name[i] \in Digits
        /\ {d1 - 1, d2 - d1 - 1, d3 - d2 - 1, Len(name) - d3} \subseteq 1..3

\* the editors of the records the cursor has yielded
Scanned == {corpus[i]["editor"] : i \in 1..Min2(f_cursor - 1, Len(corpus))}

\* the requests that carry a name
RequestsOf(name) == {i \in 1..Len(f_reqs) : name \in f_reqs[i]}

\* C11: fill_editors_info puts every editor that is not shaped like an IPv4
\* address in exactly one request for users and no editor shaped like one in
\* any, every request carries between 1 and BatchSize (50) names, and when
\* the scan ends no such editor is left without a request.
C11_EachEditorOnce ==
    f_pc # "idle" =>
        /\ \A i \in 1..Len(f_reqs) :
              /\ Cardinality(f_reqs[i]) >= 1
              /\ Cardinality(f_reqs[i]) <= BatchSize
              /\ f_reqs[i] \subseteq Scanned
              /\ \A name \in f_reqs[i] : ~IpShaped(name)
        /\ \A name \in Scanned :
              /\ Cardinality(RequestsOf(name)) <= 1
              /\ ~IpShaped(name) /\ RequestsOf(name) = {} =>
                    f_pc = "scan" /\ name \in current
              /\ f_pc = "done" /\ ~IpShaped(name) => Cardinality(RequestsOf(name)) = 1

\* a scan has ended that made a full request, passed over a name shaped
\* like an address, and met again a name it had requested before
C11_Witness ==
    /\ f_pc = "done"
    /\ Len(f_reqs) >= 1
    /\ Cardinality(f_reqs[1]) = BatchSize
    /\ \E i \in 1..Len(corpus) : IpShaped(corpus[i]["editor"])
    /\ \E j \in 1..Len(corpus) :
          /\ corpus[j]["editor"] \in f_reqs[1]
          /\ f_reqs[1] \subseteq {corpus[i]["editor"] : i \in 1..(j - 1)}

\* ------------------------------------------------------------------ Spec

\* the functions of the module are called one at a time from a shell, and
\* each part above has its own specification: TextSpec, ApplySpec, ApiSpec,
\* PagesSpec; the bulk mutator is the one the others are run through
Spec == ApplySpec

====
